---------------------------- MODULE Spec2Model ----------------------------
(* Model of tkp/stream.py: the AARTFAAC streaming ingest.                  *)
(*   connector / connection_handler : one worker per (host, port)          *)
(*   read_window / reconstruct_fits : frame codec and image reconstructor  *)
(*   merger                         : groups images by timestamp           *)
(*   stream_generator               : pools, queues and the batch iterator *)
EXTENDS Integers, Sequences, FiniteSets, TLC

(* ------------------------------ bounds -------------------------------- *)
\* number of (host, port) pairs handed to stream_generator
NumWorkers == 2
\* frames read from the sockets of all workers together
MaxFrames == 2
\* failed connect attempts of all workers together
MaxFails == 2
\* largest process pool size (cpu count) considered
MaxPool == 2
\* distinct parsable date-obs values the sockets deliver
MaxTime == 2
\* distinct parsable date-obs values put before the merger driven on its own
MaxStamp == 3
\* records put on the image queue when the merger is driven on its own
MaxInject == 7

\* largest metadata block length a frame header announces
MaxMeta == 1
\* largest pixel block length a frame header announces
MaxPix == 4
\* largest NAXIS1 / NAXIS2 a metadata block declares
MaxAxis == 1
\* windows read byte by byte, on all sockets together
MaxWireFrames == 2
\* sockets the connector read byte by byte creates
MaxSockets == 2
\* recv returns up to this many bytes, or all that was asked for
MaxChunk == 3

Workers == 1..NumWorkers

(* ----------------------------- constants ------------------------------ *)
\* CHECKSUM = 0x47494A53484F4D4F, kept as its eight bytes (most significant
\* first) because the value does not fit a 32-bit integer
CHECKSUM == <<71, 73, 74, 83, 72, 79, 77, 79>>

\* struct format 'f': four bytes per pixel
FloatSize == 4

\* getbytes(socket_, 512): the fixed size of the window header
HeaderSize == 512

\* a date-obs string dateutil.parser.parse rejects
BadDate == 0

\* date-obs header values that can arrive on the wire
DateObs == 0..MaxTime

\* previous_timestamp before the first image is taken
None == -1

VARIABLES
    pool,               \* max_workers of the ProcessPoolExecutor, 0 before it exists
    pc,                 \* per worker: "pending","connect","sleep","read","dead"
    err,                \* per worker: the exception raised last
    fails,              \* per worker: failed connect attempts
    waits,              \* per worker: completed time.sleep(5) calls
    nframes,            \* frames read so far by all workers
    ngood,              \* frames read and reconstructed without error
    image_queue,        \* manager.Queue() of reconstructed images
    mpc,                \* merger: "first", "loop", "dead"
    images,             \* merger: the group being collected
    previous_timestamp, \* merger: timestamp of the group being collected
    timing_errors,      \* merger: "timing error" lines logged
    taken,              \* merger: images got from image_queue so far
    grouped_queue,      \* manager.Queue() of groups
    yielded,            \* groups the generator has yielded to its caller
    \* one connector followed byte by byte
    sockid,             \* sockets it has created so far
    rpos,               \* bytes received from the current socket
    wpc,                \* "connect","loop","header","fits","image","parse",
                        \* "build","dead"
    count,              \* getbytes: bytes still to read
    result,             \* getbytes: bytes read, each named by its offset
    window,             \* read_window: its locals
    hdu_header,         \* reconstruct_fits: the parsed metadata block
    werr,               \* the exception raised last
    wframes             \* windows begun so far

workerVars == <<pool, pc, err, fails, waits, nframes, ngood>>
mergerVars == <<mpc, images, previous_timestamp, timing_errors, taken>>
wireVars == <<sockid, rpos, wpc, count, result, window, hdu_header, werr,
              wframes>>
vars == <<pool, pc, err, fails, waits, nframes, ngood, image_queue, mpc, images,
          previous_timestamp, timing_errors, taken, grouped_queue, yielded,
          sockid, rpos, wpc, count, result, window, hdu_header, werr, wframes>>

(* --------------------------- frame codec ------------------------------ *)
\* What one pass of read_window meets on the socket: either the peer closes
\* before the three blocks are complete, or a whole frame arrives.
Frames ==
    [closed : {TRUE}] \cup
    [closed : {FALSE},
     magic : {CHECKSUM, [CHECKSUM EXCEPT ![8] = 0]},
     NAXIS1 : {1}, NAXIS2 : {1},
     dateobs : DateObs,
     array_length : {3, 4, 8}]

\* read_window: getbytes raises when recv returns nothing, the assert
\* raises on a foreign magic, otherwise both blocks are returned
read_window(f) ==
    IF f.closed THEN [exc |-> "closed"]
    ELSE IF f.magic # CHECKSUM THEN [exc |-> "assert"]
    ELSE [exc |-> "none",
          fits_bytes |-> [NAXIS1 |-> f.NAXIS1, NAXIS2 |-> f.NAXIS2,
                          dateobs |-> f.dateobs],
          image_bytes |-> f.array_length]

\* reconstruct_fits with the bug of unpacking only the whole floats of the
\* pixel block, image_bytes[:4 * (len / 4)]
reconstruct_fits_Truncating(fits_bytes, image_bytes) ==
    LET n == image_bytes \div FloatSize IN
    IF n # fits_bytes.NAXIS1 * fits_bytes.NAXIS2 THEN [exc |-> "decode"]
    ELSE [exc |-> "none",
          hdulist |-> [dateobs |-> fits_bytes.dateobs,
                       NAXIS1 |-> fits_bytes.NAXIS1,
                       NAXIS2 |-> fits_bytes.NAXIS2]]

\* reconstruct_fits: struct.unpack of len/4 floats needs exactly 4*(len/4)
\* bytes, np.reshape needs width*length values; date-obs is not looked at
reconstruct_fits(fits_bytes, image_bytes) ==
    LET n == image_bytes \div FloatSize IN
    IF n * FloatSize # image_bytes THEN [exc |-> "decode"]
    ELSE IF n # fits_bytes.NAXIS1 * fits_bytes.NAXIS2 THEN [exc |-> "decode"]
    ELSE [exc |-> "none",
          hdulist |-> [dateobs |-> fits_bytes.dateobs,
                       NAXIS1 |-> fits_bytes.NAXIS1,
                       NAXIS2 |-> fits_bytes.NAXIS2]]

\* extract_timestamp: dateutil.parser.parse of the date-obs header
extract_timestamp(hdulist) ==
    IF hdulist.dateobs = BadDate THEN [exc |-> "parse"]
    ELSE [exc |-> "none", timestamp |-> hdulist.dateobs]

\* read_window before it has read anything, at offset base of the socket
FreshWindow(base) ==
    [base |-> base, header_bytes |-> <<>>, magic |-> <<>>,
     fits_length |-> 0, array_length |-> 0,
     fits_bytes |-> <<>>, image_bytes |-> <<>>]

\* no window is being read
NoWindow == FreshWindow(0)

\* no metadata block has been parsed
NoHeader == [NAXIS1 |-> 0, NAXIS2 |-> 0, dateobs |-> BadDate]

(* ------------------------------- Init --------------------------------- *)
Init ==
    /\ pool = 0
    /\ pc = [w \in Workers |-> "pending"]
    /\ err = [w \in Workers |-> "none"]
    /\ fails = [w \in Workers |-> 0]
    /\ waits = [w \in Workers |-> 0]
    /\ nframes = 0
    /\ ngood = 0
    /\ image_queue = <<>>
    /\ mpc = "first"
    /\ images = <<>>
    /\ previous_timestamp = None
    /\ timing_errors = 0
    /\ taken = <<>>
    /\ grouped_queue = <<>>
    /\ yielded = <<>>
    /\ sockid = 0
    /\ rpos = 0
    /\ wpc = "connect"
    /\ count = 0
    /\ result = <<>>
    /\ window = NoWindow
    /\ hdu_header = NoHeader
    /\ werr = "none"
    /\ wframes = 0

(* ------------------------ stream orchestrator ------------------------- *)
\* processpool = ProcessPoolExecutor(): max_workers is the machine's cpu count
MakePool ==
    /\ pool = 0
    /\ pool' \in 1..MaxPool
    /\ UNCHANGED <<pc, err, fails, waits, nframes, ngood, image_queue, mergerVars,
                   grouped_queue, yielded>>
    /\ UNCHANGED wireVars

\* the connectors that hold a pool process
Running == {w \in Workers : pc[w] \in {"connect", "sleep", "read"}}

\* processpool.map(connector, ...): the calls are queued in order and a pool
\* process takes the next one when it is free (a connector that raised
\* frees its process, one that loops keeps it)
Start(w) ==
    /\ pc[w] = "pending"
    /\ \A v \in Workers : v < w => pc[v] # "pending"
    /\ Cardinality(Running) < pool
    /\ pc' = [pc EXCEPT ![w] = "connect"]
    /\ UNCHANGED <<pool, err, fails, waits, nframes, ngood, image_queue, mergerVars,
                   grouped_queue, yielded>>
    /\ UNCHANGED wireVars

\* while True: yield grouped_queue.get()
Yield ==
    /\ grouped_queue # <<>>
    /\ yielded' = Append(yielded, Head(grouped_queue))
    /\ grouped_queue' = Tail(grouped_queue)
    /\ UNCHANGED <<workerVars, image_queue, mergerVars>>
    /\ UNCHANGED wireVars

(* ------------------------- connection worker -------------------------- *)
\* where connector goes after the except: branch (a bug would skip the sleep)
AfterConnectError_NoSleep == "connect"

\* connector, except: branch: log twice, then time.sleep(5)
AfterConnectError == "sleep"

\* where the worker goes after a failed read (a bug would back off first)
AfterReadError_Backoff == "sleep"

\* connection_handler, except: branch: break, so connector's loop starts over
AfterReadError == "connect"

\* failed connect attempts of the workers 1..n together
RECURSIVE FailsUpTo(_)
FailsUpTo(n) == IF n = 0 THEN 0 ELSE FailsUpTo(n - 1) + fails[n]

\* connector: socket_.connect raised
ConnectFail(w) ==
    /\ pc[w] = "connect"
    /\ FailsUpTo(NumWorkers) < MaxFails
    /\ fails' = [fails EXCEPT ![w] = @ + 1]
    /\ err' = [err EXCEPT ![w] = "connect"]
    /\ pc' = [pc EXCEPT ![w] = AfterConnectError]
    /\ UNCHANGED <<pool, waits, nframes, ngood, image_queue, mergerVars,
                   grouped_queue, yielded>>
    /\ UNCHANGED wireVars

\* connector: time.sleep(5) returned, back to the top of the loop
Sleep(w) ==
    /\ pc[w] = "sleep"
    /\ waits' = [waits EXCEPT ![w] = @ + 1]
    /\ pc' = [pc EXCEPT ![w] = "connect"]
    /\ UNCHANGED <<pool, err, fails, nframes, ngood, image_queue, mergerVars,
                   grouped_queue, yielded>>
    /\ UNCHANGED wireVars

\* connector: connected, connection_handler is entered
ConnectOK(w) ==
    /\ pc[w] = "connect"
    /\ err' = [err EXCEPT ![w] = "none"]
    /\ pc' = [pc EXCEPT ![w] = "read"]
    /\ UNCHANGED <<pool, fails, waits, nframes, ngood, image_queue, mergerVars,
                   grouped_queue, yielded>>
    /\ UNCHANGED wireVars

\* the frame delivers without error: read_window returns, reconstruct_fits too
Decodes(f) ==
    /\ read_window(f).exc = "none"
    /\ reconstruct_fits(read_window(f).fits_bytes,
                        read_window(f).image_bytes).exc = "none"

\* the image built from the n-th frame read, received by worker w: the
\* hdulist, told apart from the others by the frame it was built from
FrameImage(hdulist, w, n) ==
    [dateobs |-> hdulist.dateobs, NAXIS1 |-> hdulist.NAXIS1,
     NAXIS2 |-> hdulist.NAXIS2, src |-> w, seq |-> n]

\* queue.put (a bug would put the image twice)
QueuePut_Twice(queue, image) == Append(Append(queue, image), image)

\* queue.put (a bug would use a queue that hands out the newest first)
QueuePut_Front(queue, image) == <<image>> \o queue

\* queue.put(hdulist) on the FIFO manager.Queue()
QueuePut(queue, image) == Append(queue, image)

\* connection_handler, one pass of its loop on what the socket delivers
Handle(w, f) ==
    /\ pc[w] = "read"
    /\ nframes < MaxFrames
    /\ nframes' = nframes + 1
    /\ ngood' = IF Decodes(f) THEN ngood + 1 ELSE ngood
    /\ LET r == read_window(f) IN
       IF r.exc # "none"
       THEN \* except: log, break; connector loops to a new connect
            /\ err' = [err EXCEPT ![w] = r.exc]
            /\ pc' = [pc EXCEPT ![w] = AfterReadError]
            /\ UNCHANGED image_queue
       ELSE LET h == reconstruct_fits(r.fits_bytes, r.image_bytes) IN
            IF h.exc # "none"
            THEN \* raised in the else: branch, outside every try
                 /\ err' = [err EXCEPT ![w] = h.exc]
                 /\ pc' = [pc EXCEPT ![w] = "dead"]
                 /\ UNCHANGED image_queue
            ELSE /\ image_queue' = QueuePut(image_queue,
                                    FrameImage(h.hdulist, w, nframes + 1))
                 /\ UNCHANGED <<pc, err>>
    /\ UNCHANGED <<pool, fails, waits, mergerVars, grouped_queue, yielded>>
    /\ UNCHANGED wireVars

(* ------------------------------ merger -------------------------------- *)
\* images = [first_image] (a bug would start with an empty list)
FirstGroup_Empty(first_image) == <<>>

\* images = [first_image]
FirstGroup(first_image) == <<first_image>>

\* the test that logs a timing error (a bug would use <=)
Older_OrEqual(new_timestamp, previous) == new_timestamp <= previous

\* if new_timestamp < previous_timestamp: logging.error(...)
Older(new_timestamp, previous) == new_timestamp < previous

\* the comparison that keeps a record in the group (a bug, and the reading
\* "an older record is folded into the current group", would use <=)
SameGroup_OrOlder(new_timestamp, previous) == new_timestamp <= previous

\* a comparison that never holds (identity instead of equality)
SameGroup_Never(new_timestamp, previous) == FALSE

\* if new_timestamp == previous_timestamp
SameGroup(new_timestamp, previous) == new_timestamp = previous

\* previous_timestamp = new_timestamp (a bug would keep the old one)
NextPrevious_Stale(new_timestamp, previous) == previous

\* previous_timestamp = new_timestamp
NextPrevious(new_timestamp, previous) == new_timestamp

\* images = [new_image] (a bug would go on appending to the old list)
NextGroup_KeepOld(old_images, new_image) == Append(old_images, new_image)

\* images = [new_image]
NextGroup(old_images, new_image) == <<new_image>>

\* first_image = image_queue.get(); images = [first_image]
MergerFirst ==
    /\ mpc = "first"
    /\ image_queue # <<>>
    /\ LET first_image == Head(image_queue)
           t == extract_timestamp(first_image) IN
       /\ image_queue' = Tail(image_queue)
       /\ taken' = Append(taken, first_image)
       /\ IF t.exc # "none"
          THEN /\ mpc' = "dead"
               /\ UNCHANGED <<images, previous_timestamp>>
          ELSE /\ mpc' = "loop"
               /\ images' = FirstGroup(first_image)
               /\ previous_timestamp' = t.timestamp
    /\ UNCHANGED <<workerVars, timing_errors, grouped_queue, yielded>>
    /\ UNCHANGED wireVars

\* one pass of the while True loop
MergerStep ==
    /\ mpc = "loop"
    /\ image_queue # <<>>
    /\ LET new_image == Head(image_queue)
           t == extract_timestamp(new_image) IN
       /\ image_queue' = Tail(image_queue)
       /\ taken' = Append(taken, new_image)
       /\ IF t.exc # "none"
          THEN /\ mpc' = "dead"
               /\ UNCHANGED <<images, previous_timestamp, timing_errors,
                              grouped_queue>>
          ELSE /\ UNCHANGED mpc
               /\ timing_errors' = IF Older(t.timestamp, previous_timestamp)
                                   THEN timing_errors + 1 ELSE timing_errors
               /\ IF SameGroup(t.timestamp, previous_timestamp)
                  THEN /\ images' = Append(images, new_image)
                       /\ UNCHANGED <<previous_timestamp, grouped_queue>>
                  ELSE /\ previous_timestamp' =
                              NextPrevious(t.timestamp, previous_timestamp)
                       /\ grouped_queue' = Append(grouped_queue, images)
                       /\ images' = NextGroup(images, new_image)
    /\ UNCHANGED <<workerVars, yielded>>
    /\ UNCHANGED wireVars

(* --------------------------- specifications --------------------------- *)
Next ==
    \/ MakePool
    \/ \E w \in Workers : Start(w)
    \/ \E w \in Workers : ConnectFail(w)
    \/ \E w \in Workers : Sleep(w)
    \/ \E w \in Workers : ConnectOK(w)
    \/ \E w \in Workers : \E f \in Frames : Handle(w, f)
    \/ MergerFirst
    \/ MergerStep
    \/ Yield

Spec == Init /\ [][Next]_vars

\* the same with the scheduling the process pool gives: the pool is made,
\* and a free pool process takes the next queued connector call; nothing is
\* assumed of the network (a connect or a recv may block for ever)
SpecFair ==
    /\ Init /\ [][Next]_vars
    /\ WF_vars(MakePool)
    /\ \A w \in Workers : WF_vars(Start(w))

\* the merger on its own: some producer puts images on image_queue
\* (queue.put(hdulist) of any connection_handler)
Put(d) ==
    /\ Len(taken) + Len(image_queue) < MaxInject
    /\ image_queue' = Append(image_queue,
                             [dateobs |-> d, NAXIS1 |-> 1, NAXIS2 |-> 1])
    /\ UNCHANGED <<workerVars, mergerVars, grouped_queue, yielded>>
    /\ UNCHANGED wireVars

NextMerger ==
    \/ \E d \in 0..MaxStamp : Put(d)
    \/ MergerFirst
    \/ MergerStep

SpecMerger == Init /\ [][NextMerger]_vars

(* -------------------- one connector, byte by byte --------------------- *)
\* The bytes of a socket are named by their offset in the stream; what they
\* hold is decided when the code decodes them. A failed connect with its
\* sleep leaves this connector where it was and is not a step of its own.

\* the positions in which getbytes is running
Reading == {"header", "fits", "image"}

\* the n bytes that follow offset a
Offsets(a, n) == [i \in 1..n |-> a + i]

\* bytes_ of the getbytes call in progress
Wanted ==
    CASE wpc = "header" -> HeaderSize
      [] wpc = "fits" -> window.fits_length
      [] wpc = "image" -> window.array_length
      [] OTHER -> 0

\* offset at which the block being read starts
BlockStart ==
    CASE wpc = "header" -> window.base
      [] wpc = "fits" -> window.base + HeaderSize
      [] wpc = "image" -> window.base + HeaderSize + window.fits_length
      [] OTHER -> rpos

\* socket_.recv(...) (a bug would ask for bytes_ every time)
RecvLimit_Whole(count_, bytes_) == bytes_

\* socket_.recv(count): at most the bytes still missing
RecvLimit(count_, bytes_) == count_

\* the lengths recv can return when asked for limit bytes
RecvSizes(limit) == {k \in 1..limit : k <= MaxChunk \/ k = limit}

\* the assert (a bug would let every magic pass)
MagicOK_Any(magic) == TRUE

\* assert magic == CHECKSUM
MagicOK(magic) == magic = CHECKSUM

\* connector: a new socket is created and connected
WireConnect ==
    /\ wpc = "connect"
    /\ sockid < MaxSockets
    /\ sockid' = sockid + 1
    /\ rpos' = 0
    /\ wpc' = "loop"
    /\ werr' = "none"
    /\ UNCHANGED <<count, result, window, hdu_header, wframes>>
    /\ UNCHANGED <<workerVars, image_queue, mergerVars, grouped_queue, yielded>>

\* connection_handler calls read_window, which calls getbytes(socket_, 512)
ReadWindow ==
    /\ wpc = "loop"
    /\ wframes < MaxWireFrames
    /\ wframes' = wframes + 1
    /\ window' = FreshWindow(rpos)
    /\ hdu_header' = NoHeader
    /\ wpc' = "header"
    /\ count' = HeaderSize
    /\ result' = <<>>
    /\ UNCHANGED <<sockid, rpos, werr>>
    /\ UNCHANGED <<workerVars, image_queue, mergerVars, grouped_queue, yielded>>

\* getbytes: recv returns the next k bytes of the stream
Recv(k) ==
    /\ wpc \in Reading
    /\ count > 0
    /\ result' = result \o Offsets(rpos, k)
    /\ rpos' = rpos + k
    /\ count' = count - k
    /\ UNCHANGED <<sockid, wpc, window, hdu_header, werr, wframes>>
    /\ UNCHANGED <<workerVars, image_queue, mergerVars, grouped_queue, yielded>>

\* getbytes: recv returns nothing, "Server closed connection" is raised and
\* connection_handler breaks
RecvClosed ==
    /\ wpc \in Reading
    /\ count > 0
    /\ werr' = "closed"
    /\ wpc' = AfterReadError
    /\ count' = 0
    /\ result' = <<>>
    /\ UNCHANGED <<sockid, rpos, window, hdu_header, wframes>>
    /\ UNCHANGED <<workerVars, image_queue, mergerVars, grouped_queue, yielded>>

\* read_window: the header is complete; it unpacks to magic m and the block
\* lengths fl and al, then the magic is asserted
HeaderDone(m, fl, al) ==
    /\ wpc = "header"
    /\ count <= 0
    /\ window' = [window EXCEPT !.header_bytes = result, !.magic = m,
                                !.fits_length = fl, !.array_length = al]
    /\ result' = <<>>
    /\ IF MagicOK(m)
       THEN /\ wpc' = "fits"
            /\ count' = fl
            /\ UNCHANGED werr
       ELSE /\ wpc' = AfterReadError
            /\ count' = 0
            /\ werr' = "assert"
    /\ UNCHANGED <<sockid, rpos, hdu_header, wframes>>
    /\ UNCHANGED <<workerVars, image_queue, mergerVars, grouped_queue, yielded>>

\* read_window: fits_bytes is complete, getbytes(socket_, array_length)
FitsDone ==
    /\ wpc = "fits"
    /\ count <= 0
    /\ window' = [window EXCEPT !.fits_bytes = result]
    /\ wpc' = "image"
    /\ count' = window.array_length
    /\ result' = <<>>
    /\ UNCHANGED <<sockid, rpos, hdu_header, werr, wframes>>
    /\ UNCHANGED <<workerVars, image_queue, mergerVars, grouped_queue, yielded>>

\* read_window: image_bytes is complete, both blocks are returned
ImageDone ==
    /\ wpc = "image"
    /\ count <= 0
    /\ window' = [window EXCEPT !.image_bytes = result]
    /\ wpc' = "parse"
    /\ count' = 0
    /\ result' = <<>>
    /\ UNCHANGED <<sockid, rpos, hdu_header, werr, wframes>>
    /\ UNCHANGED <<workerVars, image_queue, mergerVars, grouped_queue, yielded>>

\* reconstruct_fits: Header.fromstring(fits_bytes) declares NAXIS1 = n1,
\* NAXIS2 = n2 and date-obs = d (which nothing here parses: one date that
\* dateutil rejects and one it accepts stand for all)
ParseHeader(n1, n2, d) ==
    /\ wpc = "parse"
    /\ hdu_header' = [NAXIS1 |-> n1, NAXIS2 |-> n2, dateobs |-> d]
    /\ wpc' = "build"
    /\ UNCHANGED <<sockid, rpos, count, result, window, werr, wframes>>
    /\ UNCHANGED <<workerVars, image_queue, mergerVars, grouped_queue, yielded>>

\* reconstruct_fits: unpack, reshape and build the hdulist, then
\* connection_handler puts it on the queue; an exception here is caught by
\* nobody
Build ==
    /\ wpc = "build"
    /\ LET h == reconstruct_fits(hdu_header, Len(window.image_bytes)) IN
       IF h.exc # "none"
       THEN /\ werr' = h.exc
            /\ wpc' = "dead"
            /\ UNCHANGED image_queue
       ELSE /\ image_queue' = QueuePut(image_queue,
                                       FrameImage(h.hdulist, 0, wframes))
            /\ wpc' = "loop"
            /\ UNCHANGED werr
    /\ UNCHANGED <<sockid, rpos, count, result, window, hdu_header, wframes>>
    /\ UNCHANGED <<workerVars, mergerVars, grouped_queue, yielded>>

NextWire ==
    \/ WireConnect
    \/ ReadWindow
    \/ \E k \in RecvSizes(RecvLimit(count, Wanted)) : Recv(k)
    \/ RecvClosed
    \/ \E m \in {CHECKSUM, [CHECKSUM EXCEPT ![8] = 0]} :
          \E fl \in 0..MaxMeta : \E al \in 0..MaxPix : HeaderDone(m, fl, al)
    \/ FitsDone
    \/ ImageDone
    \/ \E n1 \in 0..MaxAxis : \E n2 \in 0..MaxAxis :
          \E d \in {BadDate, MaxTime} : ParseHeader(n1, n2, d)
    \/ Build

SpecWire == Init /\ [][NextWire]_vars

(* ------------------------- observed quantities ------------------------ *)
\* every group put on grouped_queue so far, in order of emission
Emitted == yielded \o grouped_queue

\* the timestamp extract_timestamp gives for an image it can parse
Stamp(hdulist) == extract_timestamp(hdulist).timestamp

\* the date-obs values of a sequence of images
DatesOf(seq) == [i \in 1..Len(seq) |-> seq[i].dateobs]

\* timestamp and size of every emitted group
BatchShape == [i \in 1..Len(Emitted) |-> <<Stamp(Emitted[i][1]), Len(Emitted[i])>>]

\* number of images in the first n emitted groups
RECURSIVE CountIn(_)
CountIn(n) == IF n = 0 THEN 0 ELSE CountIn(n - 1) + Len(Emitted[n])

\* this step is a pass of the merger's loop that got an image it can parse
LoopTook ==
    /\ mpc = "loop"
    /\ Len(taken') = Len(taken) + 1
    /\ extract_timestamp(taken'[Len(taken')]).exc = "none"

\* the image that pass got, and its timestamp
NewImage == taken'[Len(taken')]
NewStamp == Stamp(taken'[Len(taken')])

\* the images of a sequence of groups, in order
RECURSIVE Flatten(_)
Flatten(groups) ==
    IF groups = <<>> THEN <<>>
    ELSE Flatten(SubSeq(groups, 1, Len(groups) - 1)) \o groups[Len(groups)]

\* every image that was put and not lost, in the order the caller of the
\* generator will see them: emitted groups, group in progress, image queue
Pipeline == Flatten(Emitted) \o images \o image_queue

\* the emitted groups followed by the group in progress
Groups == IF images = <<>> THEN Emitted ELSE Append(Emitted, images)

\* the images the merger took and could read the timestamp of
Parsed == IF mpc = "dead" THEN SubSeq(taken, 1, Len(taken) - 1) ELSE taken

\* a sequence of images cut into its maximal runs of equal timestamps
RECURSIVE RunsOf(_)
RunsOf(seq) ==
    IF seq = <<>> THEN <<>>
    ELSE LET before == RunsOf(SubSeq(seq, 1, Len(seq) - 1))
             x == seq[Len(seq)]
         IN  IF before # <<>> /\ Stamp(before[Len(before)][1]) = Stamp(x)
             THEN [before EXCEPT ![Len(before)] = Append(@, x)]
             ELSE Append(before, <<x>>)

(* ------------------------------ merger claims ------------------------- *)
\* C1: every batch put on the grouped queue holds records of one and the
\* same timestamp, whatever sequence of records was taken (regressions too).
C1_BatchOneTimestamp ==
    \A i \in 1..Len(Emitted) :
        \A j, k \in 1..Len(Emitted[i]) :
            Stamp(Emitted[i][j]) = Stamp(Emitted[i][k])

\* C1 witness: a regression was met and a batch of several records is out
C1_Witness ==
    /\ timing_errors > 0
    /\ \E i \in 1..Len(Emitted) : Len(Emitted[i]) >= 2

\* C2 as stated: a record older than the current group is appended to the
\* buffer without a batch being emitted, so after [t1,t1,t2,t2,t2,t1,t3] the
\* emitted batches are exactly [Batch(t1, 2), Batch(t2, 3)].
C2_Original ==
    DatesOf(taken) = <<1, 1, 2, 2, 2, 1, 3>>
        => BatchShape = << <<1, 2>>, <<2, 3>> >>

\* C2 amended: a record older than the current group is logged as a timing
\* error and closes the group like any other differing timestamp: the buffer
\* is emitted, the record starts the next group and its timestamp becomes
\* the current one; after [t1,t1,t2,t2,t2,t1,t3] the emitted batches are
\* exactly [Batch(t1, 2), Batch(t2, 3), Batch(t1, 1)] with t3 in progress.
C2_Amended ==
    /\ [](DatesOf(taken) = <<1, 1, 2, 2, 2, 1, 3>>
            => /\ BatchShape = << <<1, 2>>, <<2, 3>>, <<1, 1>> >>
               /\ DatesOf(images) = <<3>>
               /\ timing_errors = 1)
    /\ [][(LoopTook /\ NewStamp < previous_timestamp)
            => /\ timing_errors' = timing_errors + 1
               /\ grouped_queue' = Append(grouped_queue, images)
               /\ images' = <<NewImage>>
               /\ previous_timestamp' = NewStamp]_vars

\* C2 witness: the seven records of the scenario have all been taken
C2_Witness == DatesOf(taken) = <<1, 1, 2, 2, 2, 1, 3>>

\* C3: a record whose timestamp strictly follows the current one makes the
\* merger put exactly the accumulated buffer (the records taken since the
\* last emission, in arrival order) on the output queue, restart the buffer
\* with the new record alone and take the new timestamp as current.
C3_NewerEmits ==
    [][(LoopTook /\ NewStamp > previous_timestamp)
         => /\ grouped_queue' = Append(grouped_queue, images)
            /\ images = SubSeq(taken, CountIn(Len(Emitted)) + 1, Len(taken))
            /\ \A j \in 1..Len(images) : Stamp(images[j]) = previous_timestamp
            /\ images' = <<NewImage>>
            /\ previous_timestamp' = NewStamp]_vars

\* C3 witness: a group of three was emitted on a newer timestamp and the
\* record that closed it is the buffer
C3_Witness ==
    /\ Len(grouped_queue) >= 2
    /\ Len(grouped_queue[Len(grouped_queue)]) = 3
    /\ Len(images) = 1
    /\ previous_timestamp > Stamp(grouped_queue[Len(grouped_queue)][1])

C5_NoEmptyBatch == \A i \in 1..Len(Emitted) : Len(Emitted[i]) >= 1

\* C5 witness: batches have been emitted, one of them by the first boundary
\* right after the first image
C5_Witness ==
    /\ Len(Emitted) >= 2
    /\ Len(Emitted[1]) = 1

(* ------------------------------ worker claims ------------------------- *)
\* C6 as stated: while streaming, a DecodeError of the image reconstructor
\* is handled like a closed connection or a magic mismatch: the worker goes
\* back to connecting.
C6_DecodeErrorReconnects ==
    [][\A w \in Workers :
         (pc[w] = "read" /\ pc'[w] # "read" /\ err'[w] = "decode")
            => pc'[w] = "connect"]_vars

\* C7 as stated: no frame content received on a connection makes the merger
\* fail or stop.
C7_MergerNeverFails == mpc # "dead"

\* C8 as stated: a started worker is always connecting, waiting for the
\* retry delay or streaming.
C8_WorkerNeverTerminates ==
    \A w \in Workers : pc[w] \in {"pending", "connect", "sleep", "read"}

\* C9: after N failed connect attempts the worker has made exactly N waits,
\* one right after each failure (the N-th wait is under way while it
\* sleeps), none after a successful connect, and a successful connect is
\* followed at once by reading frames.
C9_OneWaitPerFailure ==
    /\ [](\A w \in Workers :
            /\ pc[w] = "sleep" => waits[w] + 1 = fails[w]
            /\ pc[w] # "sleep" => waits[w] = fails[w])
    /\ [][\A w \in Workers :
            /\ fails'[w] # fails[w] => pc'[w] = "sleep"
            /\ (pc[w] = "connect" /\ pc'[w] # "connect" /\ fails'[w] = fails[w])
                  => (pc'[w] = "read" /\ waits'[w] = waits[w])]_vars

\* C9 witness: a worker streams after two failed attempts and two waits
C9_Witness ==
    \E w \in Workers : pc[w] = "read" /\ fails[w] = 2 /\ waits[w] = 2

\* C10: after a failed read (peer closed, magic mismatch) the worker is at a
\* new connect attempt with no wait taken, and a wait only ever starts from
\* a connect attempt that failed.
C10_ReconnectWithoutDelay ==
    [][\A w \in Workers :
         /\ (pc[w] = "read" /\ err'[w] # err[w]
                /\ err'[w] \in {"closed", "assert"})
              => (pc'[w] = "connect" /\ waits'[w] = waits[w])
         /\ (pc'[w] = "sleep" /\ pc[w] # "sleep")
              => (pc[w] = "connect" /\ fails'[w] = fails[w] + 1)]_vars

\* C10 witness: a worker is back at connect after a magic mismatch, having
\* never waited
C10_Witness ==
    \E w \in Workers : pc[w] = "connect" /\ err[w] = "assert" /\ waits[w] = 0

(* --------------------------- second claim set ------------------------- *)
\* C11: a worker puts exactly one record on the image queue for every frame
\* that is read and reconstructed without error, and nothing for a frame
\* whose read or reconstruction fails.
C11_OneRecordPerGoodFrame ==
    /\ [](Len(taken) + Len(image_queue) = ngood)
    /\ [][nframes' # nframes
            => \/ /\ ngood' = ngood + 1
                  /\ Len(image_queue') = Len(image_queue) + 1
                  /\ SubSeq(image_queue', 1, Len(image_queue)) = image_queue
               \/ /\ ngood' = ngood
                  /\ image_queue' = image_queue]_vars

\* C11 witness: two frames were read, one failed, one record was put
C11_Witness ==
    /\ nframes = 2
    /\ ngood = 1
    /\ Len(taken) + Len(image_queue) = 1

C13_OneBatchPerTimestamp ==
    \A i, j \in 1..Len(Groups) :
        i # j => Stamp(Groups[i][1]) # Stamp(Groups[j][1])

\* C13 amended: the grouping is decided by the order of arrival: the groups
\* (emitted, then in progress) are exactly the maximal runs of consecutive
\* records with equal timestamps in the sequence taken from the image queue.
C13_GroupsAreRuns == Groups = RunsOf(Parsed)

\* C13 witness: records of one timestamp arrived apart and sit in two groups
C13_Witness ==
    /\ Len(Groups) >= 3
    /\ Stamp(Groups[1][1]) = Stamp(Groups[3][1])
    /\ Len(Groups[1]) >= 2

\* C14 as stated: every endpoint's worker eventually runs and attempts to
\* connect, although the workers started before it never return.
C14_EveryWorkerStarts == <>(\A w \in Workers : pc[w] # "pending")

\* C15: the merger logs a timing error exactly for the records whose
\* timestamp strictly precedes the current one; such a record does not stop
\* the merger and is kept as the group in progress, nothing taken so far
\* being dropped.
C15_RegressionKeepsData ==
    [][LoopTook
         => /\ timing_errors' =
                  IF NewStamp < previous_timestamp
                  THEN timing_errors + 1 ELSE timing_errors
            /\ NewStamp < previous_timestamp
                  => /\ mpc' = "loop"
                     /\ images' # <<>>
                     /\ images'[Len(images')] = NewImage
                     /\ Flatten(Emitted') \o images' = taken']_vars

\* C15 witness: a record that arrived late has been emitted in a batch of
\* its own after the batch of the newer timestamp
C15_Witness ==
    /\ timing_errors >= 1
    /\ \E i \in 2..Len(Emitted) :
           Stamp(Emitted[i][1]) < Stamp(Emitted[i - 1][1])

\* C19 as stated: the emitted batches in order followed by the group in
\* progress are exactly the records taken from the image queue.
C19_Conservation == Flatten(Emitted) \o images = taken

\* C20: two batches emitted one after the other have different timestamps,
\* and so have the last emitted batch and the group in progress; the
\* timestamps need not increase.
C20_AdjacentBatchesDiffer ==
    /\ \A i \in 1..(Len(Emitted) - 1) :
           Stamp(Emitted[i][1]) # Stamp(Emitted[i + 1][1])
    /\ Emitted # <<>>
           => previous_timestamp # Stamp(Emitted[Len(Emitted)][1])

\* C20 witness: three batches whose timestamps go up and then down, the
\* group in progress differing from the last of them
C20_Witness ==
    /\ Len(Emitted) = 3
    /\ Stamp(Emitted[1][1]) < Stamp(Emitted[2][1])
    /\ Stamp(Emitted[3][1]) < Stamp(Emitted[2][1])
    /\ images # <<>>

(* ------------------------- frame codec claims ------------------------- *)
\* C16: when the pixel block's length differs from 4 x NAXIS1 x NAXIS2 (be
\* it a multiple of 4 or not), reconstruction fails with an error and no
\* image record comes out of it.
C16_WrongLengthFails ==
    [][(wpc = "build"
          /\ Len(window.image_bytes)
               # FloatSize * hdu_header.NAXIS1 * hdu_header.NAXIS2)
         => /\ werr' = "decode"
            /\ wpc' = "dead"
            /\ image_queue' = image_queue]_vars

\* C16 witness: a pixel block that is no whole number of floats was refused
C16_Witness ==
    /\ wpc = "dead"
    /\ werr = "decode"
    /\ Len(window.image_bytes) % FloatSize # 0

\* C17: reading a frame consumes exactly 512 + metadata_len + pixel_len
\* bytes whatever recv returns: each block is the bytes received for it, in
\* order and of exactly the length asked for, the read stops at the frame's
\* last byte, and a recv that returns nothing before a block is complete
\* fails the read as a closed connection.
C17_ExactRead ==
    /\ [](wpc \in Reading
            => /\ count >= 0
               /\ Len(result) + count = Wanted
               /\ result = Offsets(BlockStart, Len(result))
               /\ rpos = BlockStart + Len(result))
    /\ [](wpc \in {"parse", "build"}
            => /\ window.header_bytes = Offsets(window.base, HeaderSize)
               /\ window.fits_bytes =
                     Offsets(window.base + HeaderSize, window.fits_length)
               /\ window.image_bytes =
                     Offsets(window.base + HeaderSize + window.fits_length,
                             window.array_length)
               /\ rpos = window.base + HeaderSize + window.fits_length
                            + window.array_length)
    /\ [][(wpc \in Reading /\ count > 0)
            => \/ /\ rpos' > rpos
                  /\ rpos' - rpos <= count
                  /\ wpc' = wpc
               \/ /\ rpos' = rpos
                  /\ werr' = "closed"
                  /\ wpc' = "connect"]_vars

\* C17 witness: the second frame of a socket has been read whole, with both
\* blocks at their largest
C17_Witness ==
    /\ wpc = "parse"
    /\ window.base > 0
    /\ window.fits_length = MaxMeta
    /\ window.array_length = MaxPix
    /\ rpos = window.base + HeaderSize + MaxMeta + MaxPix

\* C18: a header whose magic is not CHECKSUM fails the read before any byte
\* of the metadata or pixel block is read, and the socket is not read again:
\* the worker's next socket operation makes a new connection.
C18_BadMagicDropsConnection ==
    /\ [](wpc \in {"fits", "image", "parse", "build"}
            => window.magic = CHECKSUM)
    /\ [][(wpc = "header" /\ window' # window /\ window'.magic # CHECKSUM)
            => /\ werr' = "assert"
               /\ wpc' = "connect"
               /\ rpos' = window.base + HeaderSize]_vars
    /\ [][wpc = "connect" => (sockid' = sockid + 1 /\ rpos' = 0)]_vars
    /\ [][rpos' > rpos => (sockid' = sockid /\ wpc \in Reading)]_vars

\* C18 witness: the second header of a socket carried a foreign magic and
\* the worker is back at connect with only that header read
C18_Witness ==
    /\ wpc = "connect"
    /\ werr = "assert"
    /\ window.magic # CHECKSUM
    /\ window.base > 0
    /\ rpos = window.base + HeaderSize

=============================================================================
